---- MODULE Spec2Model ----
(***************************************************************************)
(* The session-aware API client of daasom-frontend (src/api/http.ts), the  *)
(* auth provider that shares its two localStorage keys (state/auth) and    *)
(* the browser behaviour they rely on (localStorage, window.location).     *)
(***************************************************************************)
EXTENDS Integers, Sequences, FiniteSets, TLC

VARIABLES
    rawBaseURL,     \* import.meta.env.VITE_API_BASE_URL, fixed for the build
    http,           \* outcome of evaluating the module http.ts in this page
    storage,        \* localStorage, the two keys of the session
    accessToken,    \* AuthProvider's React state
    pathname,       \* window.location.pathname
    from,           \* location.state.from, the path ProtectedRoute came from
    redirectTo,     \* by slot: redirectTo of the onSubmit awaiting this login
    submitting,     \* LoginPage: the slot of the login its form awaits, 0 for none
    redirectCalls,  \* window.location.replace("/login") calls of this page
    inflight,       \* requests dispatched and not yet answered, by slot
    last,           \* the operation of the last step, its input and result
    clientsPage,    \* ClientsPage: the form, and the call it made to api/clients
    invoicesPage,   \* InvoicesPage: its React state, its calls, the backend's invoices
    trackerPage,    \* TrackerPage: selected job, milestones, loads in flight
    documentsApi,   \* api/documents: the build's flags and an uploadDocument call
    listsApi        \* a list operation of a resource module: its call and result

sessionVars == <<rawBaseURL, http, storage, accessToken, pathname, from,
                 redirectTo, submitting, redirectCalls, inflight, last>>

pageVars == <<clientsPage, invoicesPage, trackerPage, documentsApi, listsApi>>

vars == <<sessionVars, pageVars>>

\* A page that is not shown, an API module that is not called
Unmounted == "unmounted"

----------------------------------------------------------------------------
(* Bounds of the model *)

MaxInFlight == 2
MaxRedirectCalls == 2
MaxTrailingSlashes == 2
MaxPageOps == 2
MaxMilestones == 3

----------------------------------------------------------------------------
(* JavaScript values: undefined, null, strings, numbers, arrays, objects *)

Undefined == [t |-> "undefined", s |-> "", n |-> 0]
Null == [t |-> "null", s |-> "", n |-> 0]
Str(x) == [t |-> "string", s |-> x, n |-> 0]
Num(k) == [t |-> "number", s |-> "", n |-> k]
Arr(x) == [t |-> "array", s |-> x, n |-> 0]
Obj(x) == [t |-> "object", s |-> x, n |-> 0]

\* JavaScript truthiness, for the values above
Bool(b) == [t |-> "boolean", s |-> "", n |-> IF b THEN 1 ELSE 0]

Truthy(x) ==
    CASE x.t = "string" -> x.s # ""
      [] x.t = "number" -> x.n # 0
      [] x.t = "boolean" -> x.n # 0
      [] x.t = "array" -> TRUE
      [] x.t = "object" -> TRUE
      [] OTHER -> FALSE

----------------------------------------------------------------------------
(* Strings *)

RECURSIVE Repeat(_, _)
Repeat(c, k) == IF k = 0 THEN "" ELSE c \o Repeat(c, k - 1)

LowerChar(c) ==
    CASE c = "A" -> "a" [] c = "B" -> "b" [] c = "C" -> "c" [] c = "D" -> "d"
      [] c = "E" -> "e" [] c = "F" -> "f" [] c = "G" -> "g" [] c = "H" -> "h"
      [] c = "I" -> "i" [] c = "J" -> "j" [] c = "K" -> "k" [] c = "L" -> "l"
      [] c = "M" -> "m" [] c = "N" -> "n" [] c = "O" -> "o" [] c = "P" -> "p"
      [] c = "Q" -> "q" [] c = "R" -> "r" [] c = "S" -> "s" [] c = "T" -> "t"
      [] c = "U" -> "u" [] c = "V" -> "v" [] c = "W" -> "w" [] c = "X" -> "x"
      [] c = "Y" -> "y" [] c = "Z" -> "z" [] OTHER -> c

\* String.prototype.toLowerCase
RECURSIVE ToLowerCase(_)
ToLowerCase(s) ==
    IF Len(s) = 0 THEN ""
    ELSE LowerChar(SubSeq(s, 1, 1)) \o ToLowerCase(SubSeq(s, 2, Len(s)))

\* String.prototype.includes
Includes(s, sub) ==
    \E i \in 1..(Len(s) - Len(sub) + 1) : SubSeq(s, i, i + Len(sub) - 1) = sub

\* rawBaseURL.replace(/\/+$/, "")
RECURSIVE StripTrailingSlashes(_)
StripTrailingSlashes(s) ==
    IF Len(s) > 0 /\ SubSeq(s, Len(s), Len(s)) = "/"
    THEN StripTrailingSlashes(SubSeq(s, 1, Len(s) - 1))
    ELSE s

----------------------------------------------------------------------------
(* Module initialisation of http.ts *)

ConfigErrorMessage == "VITE_API_BASE_URL is missing. Check .env and restart the dev server."

\* The values the build may give VITE_API_BASE_URL
RawBaseURLs ==
    {Undefined, Str("")}
    \cup {Str(Repeat("/", k)) : k \in 1..MaxTrailingSlashes}
    \cup {Str("http://h/api" \o Repeat("/", k)) : k \in 0..MaxTrailingSlashes}

\* Mutant: only a missing value is refused (rawBaseURL === undefined)
ModuleInit_UndefinedOnly(raw) ==
    IF raw = Undefined
    THEN [status |-> "failed", error |-> ConfigErrorMessage, baseURL |-> Undefined]
    ELSE [status |-> "created", error |-> "", baseURL |-> Str(StripTrailingSlashes(raw.s))]

ModuleInit(raw) ==
    IF ~Truthy(raw)
    THEN [status |-> "failed", error |-> ConfigErrorMessage, baseURL |-> Undefined]
    ELSE [status |-> "created", error |-> "", baseURL |-> Str(StripTrailingSlashes(raw.s))]

----------------------------------------------------------------------------
(* localStorage *)

ACCESS_KEY == "daasom_access_token"
REFRESH_KEY == "daasom_refresh_token"

EmptyStorage == [k \in {ACCESS_KEY, REFRESH_KEY} |-> Null]
GetItem(st, k) == st[k]
SetItem(st, k, v) == [st EXCEPT ![k] = Str(v)]
RemoveItem(st, k) == [st EXCEPT ![k] = Null]

----------------------------------------------------------------------------
(* Requests, responses and errors *)

Slots == 1..MaxInFlight

AccessTokens == {"t1", "t2"}
RefreshFor(a) == IF a = "t1" THEN "r1" ELSE "r2"

\* Bodies of a successful POST /auth/login/ (LoginResponse: refresh is optional)
LoginResponses ==
    UNION {{[access |-> a, refresh |-> Undefined],
            [access |-> a, refresh |-> Str(RefreshFor(a))]} : a \in AccessTokens}

\* The config a caller hands to the client: no caller sets Authorization itself
NewConfig(kind) == [kind |-> kind, headers |-> [Authorization |-> Undefined]]

FreeSlot == [state |-> "free", config |-> NewConfig("")]
Sent(config) == [state |-> "sent", config |-> config]

\* Response bodies: absent, plain text, or an object with optional code and detail
NoData == [t |-> "undefined", s |-> "", code |-> Undefined, detail |-> Undefined]
TextData(x) == [t |-> "string", s |-> x, code |-> Undefined, detail |-> Undefined]
ObjData(code, detail) == [t |-> "object", s |-> "", code |-> code, detail |-> detail]

Codes == {Undefined, Str("token_not_valid"), Str("no_active_account")}

Details ==
    { Undefined,
      Str("Given token not valid for any token type"),
      Str("TOKEN NOT VALID"),
      Str("Not Valid For Any Token Type"),
      Str("No active account found with the given credentials"),
      Arr("token not valid") }

Bodies ==
    {NoData, TextData("Token not valid")}
    \cup {ObjData(c, d) : c \in Codes, d \in Details}

Statuses == {401, 403}

NoResponse == [t |-> "undefined", status |-> 0, data |-> NoData]
Response(status, data) == [t |-> "object", status |-> status, data |-> data]

\* An axios error: with the response the server gave, or without one (network)
ErrorWith(response) == [response |-> response]
NetworkError == ErrorWith(NoResponse)

Errors ==
    {NetworkError} \cup {ErrorWith(Response(st, b)) : st \in Statuses, b \in Bodies}

\* What the promise of a request settles to, as the caller sees it
Pending == [kind |-> "none", error |-> NetworkError]
Resolve == [kind |-> "resolve", error |-> NetworkError]
Reject(error) == [kind |-> "reject", error |-> error]

----------------------------------------------------------------------------
(* http.ts: the interceptors *)

\* data?.code, data?.detail
Prop(data, field) == IF data.t = "object" THEN data[field] ELSE Undefined

\* error?.response?.status
StatusOf(error) ==
    IF error.response.t = "object" THEN Num(error.response.status) ELSE Undefined

\* error?.response?.data
DataOf(error) ==
    IF error.response.t = "object" THEN error.response.data ELSE NoData

\* typeof data?.detail === "string" ? data.detail : ""
DetailOf(data) ==
    LET d == Prop(data, "detail") IN IF d.t = "string" THEN d.s ELSE ""

\* Mutant: the code is not consulted
LooksLikeInvalidToken_DetailOnly(data) ==
    \/ Includes(ToLowerCase(DetailOf(data)), "token not valid")
    \/ Includes(ToLowerCase(DetailOf(data)), "not valid for any token type")

\* Mutant: the detail is matched without toLowerCase()
LooksLikeInvalidToken_CaseSensitive(data) ==
    \/ Prop(data, "code") = Str("token_not_valid")
    \/ Includes(DetailOf(data), "token not valid")
    \/ Includes(DetailOf(data), "not valid for any token type")

LooksLikeInvalidToken(data) ==
    \/ Prop(data, "code") = Str("token_not_valid")
    \/ Includes(ToLowerCase(DetailOf(data)), "token not valid")
    \/ Includes(ToLowerCase(DetailOf(data)), "not valid for any token type")

\* Mutant: the status is not consulted
ShouldTeardown_AnyStatus(error) == LooksLikeInvalidToken(DataOf(error))

\* Mutant: an error without response counts as a lost session
ShouldTeardown_NoResponse(error) ==
    \/ error.response.t = "undefined"
    \/ StatusOf(error) = Num(401) /\ LooksLikeInvalidToken(DataOf(error))

\* status === 401 && looksLikeInvalidToken
ShouldTeardown(error) ==
    StatusOf(error) = Num(401) /\ LooksLikeInvalidToken(DataOf(error))

\* ShouldTeardown of every error of the model, evaluated once
TeardownOf == [e \in Errors |-> ShouldTeardown(e)]

\* the two removeItem calls of clearAuthAndRedirect
ClearAuth(st) == RemoveItem(RemoveItem(st, ACCESS_KEY), REFRESH_KEY)

\* Mutant: the comparison is inverted
ShouldRedirect_Inverted(path) == path = "/login"

\* Mutant: the location is not consulted
ShouldRedirect_Always(path) == TRUE

\* window.location.pathname !== "/login"
ShouldRedirect(path) == path # "/login"

\* Mutant: after a teardown the handler returns instead of rejecting
ResponseErrorResult_Swallow(error) ==
    IF ShouldTeardown(error) THEN Resolve ELSE Reject(error)

\* return Promise.reject(error)
ResponseErrorResult(error) == Reject(error)

\* Mutant: the header is set without the if (token) test
RequestInterceptor_Unconditional(st, config) ==
    LET token == GetItem(st, ACCESS_KEY) IN
    [config EXCEPT !.headers.Authorization =
        Str("Bearer " \o (IF token.t = "string" THEN token.s ELSE "null"))]

\* Mutant: the token comes from the provider's state, not from storage
RequestInterceptor_FromProvider(st, config) ==
    IF Truthy(accessToken)
    THEN [config EXCEPT !.headers.Authorization = Str("Bearer " \o accessToken.s)]
    ELSE config

\* The request interceptor
RequestInterceptor(st, config) ==
    LET token == GetItem(st, ACCESS_KEY) IN
    IF Truthy(token)
    THEN [config EXCEPT !.headers.Authorization = Str("Bearer " \o token.s)]
    ELSE config

----------------------------------------------------------------------------
(* Routes (App.tsx, ProtectedRoute.tsx) *)

\* The pages inside <ProtectedRoute>
ProtectedPaths ==
    {"/", "/clients", "/jobs", "/tracker", "/expenses", "/invoices", "/receipts",
     "/ledger", "/documents"}

\* The paths the session visits: the login page and two protected pages
Paths == {"/login", "/", "/clients"}

\* <Route path="*" element={<Navigate to="/" replace />} />
Matched(path) == IF path \in {"/login"} \cup ProtectedPaths THEN path ELSE "/"

\* Mutant: a path that matches no route is shown as it is
Route_NoCatchAll(path, token) ==
    IF path \in ProtectedPaths /\ ~Truthy(token) THEN "/login" ELSE path

\* Routes and ProtectedRoute: a path of no route becomes "/", and a
\* protected path renders only when isAuthed
Route(path, token) ==
    IF Matched(path) \in ProtectedPaths /\ ~Truthy(token) THEN "/login"
    ELSE Matched(path)

\* ProtectedRoute: state={{ from: location.pathname }} of its <Navigate>;
\* the <Navigate to="/"> of the catch-all route gives no state; a location
\* reached otherwise keeps the state it is given
RouteState(path, token, state) ==
    CASE Matched(path) \in ProtectedPaths /\ ~Truthy(token) -> Str(Matched(path))
      [] Matched(path) # path -> Null
      [] OTHER -> state

\* Mutant: the login page ignores where the user came from
RedirectTarget_Home(state) == "/"

\* LoginPage: redirectTo = location?.state?.from ?? "/"
RedirectTarget(state) == IF state.t = "string" THEN state.s ELSE "/"

\* Mutant: the provider falls back on the refresh token
ProviderInit_RefreshFallback(st) ==
    IF GetItem(st, ACCESS_KEY) # Null THEN GetItem(st, ACCESS_KEY)
    ELSE GetItem(st, REFRESH_KEY)

\* AuthProvider: useState(() => localStorage.getItem(ACCESS_KEY))
ProviderInit(st) == GetItem(st, ACCESS_KEY)

\* AuthProvider.login: the two setItem calls
StoreLogin(st, data) ==
    LET st1 == SetItem(st, ACCESS_KEY, data.access) IN
    IF Truthy(data.refresh) THEN SetItem(st1, REFRESH_KEY, data.refresh.s) ELSE st1

----------------------------------------------------------------------------
(* The state machine *)

NoLogin == [access |-> "", refresh |-> Undefined]

Event(op, id, config, error, settled) ==
    [op |-> op, id |-> id, config |-> config, error |-> error, settled |-> settled,
     data |-> NoLogin, path |-> ""]

SessionInit(raws) ==
    /\ rawBaseURL \in raws
    /\ http = ModuleInit(rawBaseURL)
    /\ storage = EmptyStorage
    /\ accessToken = ProviderInit(storage)
    /\ pathname = "/login"
    /\ from = Null
    /\ redirectTo = [i \in Slots |-> ""]
    /\ submitting = 0
    /\ redirectCalls = 0
    /\ inflight = [i \in Slots |-> FreeSlot]
    /\ last = Event("load", 0, NewConfig(""), NetworkError, Pending)

\* The session with no page of the application in use
InitWith(raws) ==
    /\ SessionInit(raws)
    /\ clientsPage = Unmounted
    /\ invoicesPage = Unmounted
    /\ trackerPage = Unmounted
    /\ documentsApi = Unmounted
    /\ listsApi = Unmounted

AppRuns == http.status = "created"

FreeSlots == {i \in Slots : inflight[i].state = "free"}

\* A caller dispatches a request through the client: the request interceptor
\* runs and the request leaves.  The login form exists on /login only, and
\* its button is disabled while the form is submitting.
Dispatch(kind) ==
    /\ AppRuns
    /\ FreeSlots # {}
    /\ kind = "login" => (pathname = "/login" /\ submitting = 0)
    /\ LET id == CHOOSE i \in FreeSlots : \A j \in FreeSlots : i <= j
           config == RequestInterceptor(storage, NewConfig(kind))
       IN  /\ inflight' = [inflight EXCEPT ![id] = Sent(config)]
           /\ redirectTo' =
                IF kind = "login"
                THEN [redirectTo EXCEPT ![id] = RedirectTarget(from)]
                ELSE redirectTo
           /\ submitting' = IF kind = "login" THEN id ELSE submitting
           /\ last' = Event("dispatch", id, config, NetworkError, Pending)
    /\ UNCHANGED <<rawBaseURL, http, storage, accessToken, pathname, from, redirectCalls>>
    /\ UNCHANGED pageVars

\* A successful response to a request other than login: (res) => res
ResponseSuccess(id) ==
    /\ inflight[id].state = "sent"
    /\ inflight[id].config.kind = "api"
    /\ inflight' = [inflight EXCEPT ![id] = FreeSlot]
    /\ last' = Event("response", id, NewConfig(""), NetworkError, Resolve)
    /\ UNCHANGED <<rawBaseURL, http, storage, accessToken, pathname, from,
                   redirectTo, submitting, redirectCalls>>
    /\ UNCHANGED pageVars

\* A successful login response: AuthProvider.login stores the tokens, then
\* LoginPage.onSubmit navigates to redirectTo
LoginSuccess(id, data) ==
    /\ inflight[id].state = "sent"
    /\ inflight[id].config.kind = "login"
    /\ storage' = StoreLogin(storage, data)
    /\ accessToken' = Str(data.access)
    /\ pathname' = Route(redirectTo[id], accessToken')
    /\ from' = RouteState(redirectTo[id], accessToken', Null)
    /\ redirectTo' = [redirectTo EXCEPT ![id] = ""]
    /\ submitting' = 0
    /\ inflight' = [inflight EXCEPT ![id] = FreeSlot]
    /\ last' = [Event("login", id, NewConfig(""), NetworkError, Resolve)
                   EXCEPT !.data = data]
    /\ UNCHANGED <<rawBaseURL, http, redirectCalls>>
    /\ UNCHANGED pageVars

\* An error outcome of any request: the response error interceptor
ResponseError(id, error) ==
    /\ inflight[id].state = "sent"
    /\ IF TeardownOf[error]
       THEN /\ ShouldRedirect(pathname) => redirectCalls < MaxRedirectCalls
            /\ storage' = ClearAuth(storage)
            /\ redirectCalls' =
                 IF ShouldRedirect(pathname) THEN redirectCalls + 1 ELSE redirectCalls
       ELSE UNCHANGED <<storage, redirectCalls>>
    /\ inflight' = [inflight EXCEPT ![id] = FreeSlot]
    /\ redirectTo' = [redirectTo EXCEPT ![id] = ""]
    /\ submitting' = IF submitting = id THEN 0 ELSE submitting
    /\ last' = Event("error", id, NewConfig(""), error, ResponseErrorResult(error))
    /\ UNCHANGED <<rawBaseURL, http, accessToken, pathname, from>>
    /\ UNCHANGED pageVars

\* Nav.onLogout, on a page inside the protected shell
\* Mutant: logout leaves the refresh token in storage
Logout_KeepRefresh ==
    /\ http.status = "created"
    /\ pathname \in ProtectedPaths
    /\ Truthy(accessToken)
    /\ storage' = RemoveItem(storage, ACCESS_KEY)
    /\ accessToken' = Null
    /\ pathname' = "/login"
    /\ from' = Null
    /\ submitting' = 0
    /\ last' = Event("logout", 0, NewConfig(""), NetworkError, Pending)
    /\ UNCHANGED <<rawBaseURL, http, redirectTo, redirectCalls, inflight>>
    /\ UNCHANGED pageVars

\* Nav.onLogout: AuthProvider.logout, then navigate("/login", { replace: true })
Logout ==
    /\ AppRuns
    /\ pathname \in ProtectedPaths
    /\ Truthy(accessToken)
    /\ storage' = RemoveItem(RemoveItem(storage, ACCESS_KEY), REFRESH_KEY)
    /\ accessToken' = Null
    /\ pathname' = "/login"
    /\ from' = Null
    /\ submitting' = 0
    /\ last' = Event("logout", 0, NewConfig(""), NetworkError, Pending)
    /\ UNCHANGED <<rawBaseURL, http, redirectTo, redirectCalls, inflight>>
    /\ UNCHANGED pageVars

\* In-app navigation (a link, the address bar with the router)
Navigate(path) ==
    /\ AppRuns
    /\ pathname' = Route(path, accessToken)
    /\ from' = RouteState(path, accessToken, Null)
    /\ submitting' = IF pathname = "/login" /\ path = "/login" THEN submitting ELSE 0
    /\ last' = [Event("navigate", 0, NewConfig(""), NetworkError, Pending)
                   EXCEPT !.path = path]
    /\ UNCHANGED <<rawBaseURL, http, storage, accessToken, redirectTo, redirectCalls,
                   inflight>>
    /\ UNCHANGED pageVars

\* The document is loaded anew at path, with the history state of that entry:
\* the modules are evaluated again, the provider reads the token from storage,
\* requests of the old page are gone
PageLoad(path, state) ==
    /\ http' = ModuleInit(rawBaseURL)
    /\ accessToken' = ProviderInit(storage')
    /\ pathname' = Route(path, accessToken')
    /\ from' = RouteState(path, accessToken', state)
    /\ redirectTo' = [i \in Slots |-> ""]
    /\ submitting' = 0
    /\ redirectCalls' = 0
    /\ inflight' = [i \in Slots |-> FreeSlot]
    /\ UNCHANGED rawBaseURL

\* The user reloads the page
Reload ==
    /\ UNCHANGED storage
    /\ PageLoad(pathname, from)
    /\ last' = Event("reload", 0, NewConfig(""), NetworkError, Pending)
    /\ UNCHANGED pageVars

\* The browser completes the navigation window.location.replace("/login") began
CommitRedirect ==
    /\ redirectCalls > 0
    /\ UNCHANGED storage
    /\ PageLoad("/login", Null)
    /\ last' = Event("redirected", 0, NewConfig(""), NetworkError, Pending)
    /\ UNCHANGED pageVars

Step(errors, logins, paths) ==
    \/ \E kind \in {"api", "login"} : Dispatch(kind)
    \/ \E id \in Slots : ResponseSuccess(id)
    \/ \E id \in Slots, data \in logins : LoginSuccess(id, data)
    \/ \E id \in Slots, error \in errors : ResponseError(id, error)
    \/ Logout
    \/ \E path \in paths : Navigate(path)
    \/ Reload
    \/ CommitRedirect

\* One error of each outcome: no response, the invalid-token response of the
\* backend, its bad-credentials response, a response that is not a 401
TokenInvalidError ==
    ErrorWith(Response(401,
        ObjData(Str("token_not_valid"), Str("Given token not valid for any token type"))))
SessionErrors ==
    { NetworkError,
      TokenInvalidError,
      ErrorWith(Response(401,
          ObjData(Str("no_active_account"),
                  Str("No active account found with the given credentials")))),
      ErrorWith(Response(403, NoData)) }

\* The logins of one user
OneUserLogins == {data \in LoginResponses : data.access = "t1"}

\* The session: a build that sets the base URL, the logins of two users, one
\* error of each outcome
Init == InitWith({Str("http://h/api/")})
Next == Step(SessionErrors, LoginResponses, Paths)
Spec == Init /\ [][Next]_vars

\* The routes: the login page, three protected pages and a path that
\* matches no route; the login of one user without a refresh token, the
\* invalid-token response
RoutePaths == {"/login", "/nowhere", "/", "/clients", "/invoices"}
NextRoutes ==
    Step({TokenInvalidError}, {[access |-> "t1", refresh |-> Undefined]}, RoutePaths)
SpecRoutes == Init /\ [][NextRoutes]_vars

\* The classification of error responses: every error of the model, the
\* logins of one user, in-app navigation to the login page only
NextClassify == Step(Errors, OneUserLogins, {"/login"})
SpecClassify == Init /\ [][NextClassify]_vars

\* The configuration: every value of the base URL, the logins of one user, an
\* error without response and the invalid-token response
InitConfig == InitWith(RawBaseURLs)
NextConfig == Step({NetworkError, TokenInvalidError}, OneUserLogins, Paths)
SpecConfig == InitConfig /\ [][NextConfig]_vars

\* The page dies between the two storage calls of a handler (the tab is closed,
\* the process is killed) and is opened again at the same path: the first call
\* has taken effect, the second has not.
LogoutInterrupted ==
    /\ AppRuns
    /\ pathname \in ProtectedPaths
    /\ Truthy(accessToken)
    /\ storage' = RemoveItem(storage, ACCESS_KEY)
    /\ PageLoad(pathname, Null)
    /\ last' = Event("logout-interrupted", 0, NewConfig(""), NetworkError, Pending)
    /\ UNCHANGED pageVars

TeardownInterrupted(id, error) ==
    /\ inflight[id].state = "sent"
    /\ TeardownOf[error]
    /\ storage' = RemoveItem(storage, ACCESS_KEY)
    /\ PageLoad(pathname, Null)
    /\ last' = Event("error-interrupted", 0, NewConfig(""), error, Pending)
    /\ UNCHANGED pageVars

LoginInterrupted(id, data) ==
    /\ inflight[id].state = "sent"
    /\ inflight[id].config.kind = "login"
    /\ storage' = SetItem(storage, ACCESS_KEY, data.access)
    /\ PageLoad(pathname, Null)
    /\ last' = [Event("login-interrupted", 0, NewConfig(""), NetworkError, Pending)
                   EXCEPT !.data = data]
    /\ UNCHANGED pageVars

\* The session dynamics with handlers that may be cut between their storage calls
NextInterrupted ==
    \/ Step({NetworkError, TokenInvalidError}, LoginResponses, Paths)
    \/ LogoutInterrupted
    \/ \E id \in Slots : TeardownInterrupted(id, TokenInvalidError)
    \/ \E id \in Slots, data \in LoginResponses : LoginInterrupted(id, data)
SpecInterrupted == Init /\ [][NextInterrupted]_vars

----------------------------------------------------------------------------
(* Vocabulary of the properties *)

StoredAccess == storage[ACCESS_KEY]
StoredRefresh == storage[REFRESH_KEY]

\* The session is gone from storage
SessionCleared == StoredAccess = Null /\ StoredRefresh = Null

\* The Authorization header that matches a stored access token
HeaderFor(stored) ==
    IF stored.t = "string" /\ stored.s # "" THEN Str("Bearer " \o stored.s) ELSE Undefined

\* The detail strings of the model that contain, in some letter case,
\* "token not valid" or "not valid for any token type"
InvalidTokenDetails ==
    { Str("Given token not valid for any token type"),
      Str("TOKEN NOT VALID"),
      Str("Not Valid For Any Token Type") }

\* The event is the handling of an error response with this status
IsErrorResponse(ev, status) ==
    /\ ev.op = "error"
    /\ ev.error.response.t = "object"
    /\ ev.error.response.status = status

HasSentinelCode(ev) ==
    /\ ev.error.response.data.t = "object"
    /\ ev.error.response.data.code = Str("token_not_valid")

HasInvalidTokenDetail(ev) ==
    /\ ev.error.response.data.t = "object"
    /\ ev.error.response.data.detail \in InvalidTokenDetails

\* The event is the handling of a 401 response that says the token is invalid
IsInvalidTokenResponse(ev) ==
    /\ IsErrorResponse(ev, 401)
    /\ (HasSentinelCode(ev) \/ HasInvalidTokenDetail(ev))

----------------------------------------------------------------------------
(* Properties *)

\* C1: every dispatched request carries Authorization: Bearer T when a
\* non-empty access token T is stored at dispatch, and no Authorization
\* header when no access token is stored.
C1_HeaderMatchesStorage ==
    last.op = "dispatch" =>
        /\ inflight[last.id] = Sent(last.config)
        /\ (StoredAccess.t = "string" /\ StoredAccess.s # "")
              => last.config.headers.Authorization = Str("Bearer " \o StoredAccess.s)
        /\ StoredAccess = Null
              => last.config.headers.Authorization = Undefined

\* A request leaves without header after a teardown emptied the storage,
\* while a request of the torn-down session is still in flight with its header
C1_Witness ==
    /\ last.op = "dispatch"
    /\ last.id = 2
    /\ StoredAccess = Null
    /\ Truthy(accessToken)
    /\ last.config.headers.Authorization = Undefined
    /\ inflight[1] = Sent(RequestInterceptor(SetItem(storage, ACCESS_KEY, "t1"), NewConfig("api")))

\* C2: the token is read from storage when a request is dispatched, so a
\* request gets the header of the storage content at its own dispatch, and a
\* request in flight keeps its header through every later step.
C2_HeaderFixedAtDispatch ==
    [][\A id \in Slots :
          /\ (inflight[id].state = "sent" /\ inflight'[id].state = "sent")
                => inflight'[id] = inflight[id]
          /\ (inflight[id].state = "free" /\ inflight'[id].state = "sent")
                => inflight'[id].config.headers.Authorization = HeaderFor(StoredAccess)
      ]_vars

\* A request of an earlier login is in flight with its old header while a
\* request dispatched after the next login carries the new token
C2_Witness ==
    /\ StoredAccess = Str("t2")
    /\ inflight[1].state = "sent"
    /\ inflight[1].config.headers.Authorization = Str("Bearer t1")
    /\ last.op = "dispatch"
    /\ last.id = 2
    /\ inflight[2].config.headers.Authorization = Str("Bearer t2")

\* C3: once a 401 response whose code is "token_not_valid" has been handled,
\* neither token is in storage, whatever the detail is.
C3_SentinelCodeClears ==
    (IsErrorResponse(last, 401) /\ HasSentinelCode(last)) => SessionCleared

\* The code alone decided: the detail names bad credentials, and the provider
\* still holds the token of the session that was torn down
C3_Witness ==
    /\ IsErrorResponse(last, 401)
    /\ HasSentinelCode(last)
    /\ last.error.response.data.detail
          = Str("No active account found with the given credentials")
    /\ Truthy(accessToken)
    /\ SessionCleared

\* C4: a 401 response whose detail is a string containing, in any letter case,
\* "token not valid" or "not valid for any token type" clears both tokens
\* whatever its code is; a detail that is not a string never matches, so with
\* a code other than the sentinel it leaves the storage as it was.
C4_DetailClears ==
    [][ /\ (IsErrorResponse(last', 401) /\ HasInvalidTokenDetail(last'))
              => (storage'[ACCESS_KEY] = Null /\ storage'[REFRESH_KEY] = Null)
        /\ ( /\ IsErrorResponse(last', 401)
             /\ last'.error.response.data.detail.t # "string"
             /\ ~HasSentinelCode(last') )
              => (storage' = storage /\ redirectCalls' = redirectCalls)
      ]_vars

\* An upper-case detail without any code tore the session down
C4_Witness ==
    /\ IsErrorResponse(last, 401)
    /\ last.error.response.data = ObjData(Undefined, Str("TOKEN NOT VALID"))
    /\ Truthy(accessToken)
    /\ SessionCleared

\* C5: the handler tears the session down only for a 401 response classified
\* as token-invalid: every other error leaves both tokens and the location
\* unchanged and asks for no navigation.
C5_OnlyInvalidToken401 ==
    [][ (last'.op = "error" /\ ~IsInvalidTokenResponse(last'))
            => /\ storage' = storage
               /\ pathname' = pathname
               /\ redirectCalls' = redirectCalls
      ]_vars

\* A 403 carrying the sentinel code and the invalidity detail was handled and
\* the session is still stored
C5_Witness ==
    /\ IsErrorResponse(last, 403)
    /\ last.error.response.data
          = ObjData(Str("token_not_valid"), Str("Given token not valid for any token type"))
    /\ StoredAccess # Null
    /\ StoredRefresh # Null
    /\ redirectCalls = 0

\* C6 as claimed: once a 401 token-invalid response has been handled off the
\* login path, navigation to /login has been asked for exactly once in this
\* page, also when several requests in flight each came back that way.
C6_OneNavigationPerPage ==
    (IsInvalidTokenResponse(last) /\ pathname # "/login") => redirectCalls = 1

\* C6, amended: every 401 token-invalid response handled off the login path
\* asks for navigation to /login exactly once, so several such responses
\* handled before the browser leaves the page ask for it once each; the
\* browser then loads /login once, which ends the page and its requests.
C6_OneNavigationPerResponse ==
    [][ /\ (IsInvalidTokenResponse(last') /\ pathname # "/login")
              => (redirectCalls' = redirectCalls + 1 /\ pathname' = pathname)
        /\ last'.op = "redirected"
              => /\ redirectCalls > 0
                 /\ pathname' = "/login"
                 /\ redirectCalls' = 0
                 /\ \A id \in Slots : inflight'[id].state = "free"
      ]_vars

\* Two requests in flight came back with a 401 token-invalid response before
\* the browser left the page
C6_Witness ==
    /\ IsInvalidTokenResponse(last)
    /\ pathname # "/login"
    /\ redirectCalls = 2

\* C7: a 401 token-invalid response handled while the location is /login
\* clears both tokens and asks for no navigation.
C7_NoRedirectOnLogin ==
    [][ (IsInvalidTokenResponse(last') /\ pathname = "/login")
            => /\ storage'[ACCESS_KEY] = Null
               /\ storage'[REFRESH_KEY] = Null
               /\ redirectCalls' = redirectCalls
               /\ pathname' = "/login"
      ]_vars

\* A session was torn down on the login page, no navigation asked for
C7_Witness ==
    /\ IsInvalidTokenResponse(last)
    /\ pathname = "/login"
    /\ redirectCalls = 0
    /\ Truthy(accessToken)
    /\ SessionCleared

\* C8: the response error handler always rejects with the error it was given,
\* after a teardown as well as after doing nothing; only a successful
\* response resolves.
C8_ErrorsPropagate ==
    /\ last.op = "error" => last.settled = [kind |-> "reject", error |-> last.error]
    /\ last.settled.kind = "resolve" => last.op \in {"response", "login"}

\* The handler tore the session down, asked for navigation and rejected
C8_Witness ==
    /\ IsInvalidTokenResponse(last)
    /\ SessionCleared
    /\ redirectCalls = 1
    /\ last.settled.kind = "reject"
    /\ last.settled.error = last.error

\* C9: an error without response is rejected unchanged: no token is removed,
\* no navigation asked for, and no request is dispatched in its place.
C9_NetworkErrorPassesThrough ==
    [][ (last'.op = "error" /\ last'.error.response.t = "undefined")
            => /\ storage' = storage
               /\ pathname' = pathname
               /\ redirectCalls' = redirectCalls
               /\ last'.settled = [kind |-> "reject", error |-> last'.error]
               /\ inflight' = [inflight EXCEPT ![last'.id] = FreeSlot]
      ]_vars

\* A network failure was handled while a session is stored
C9_Witness ==
    /\ last.op = "error"
    /\ last.error.response.t = "undefined"
    /\ StoredAccess = Str("t1")
    /\ StoredRefresh = Str("r1")
    /\ last.settled.kind = "reject"

\* C10: with the base URL missing or empty the module throws its
\* configuration error, no client exists and no request is ever dispatched;
\* with a base URL the client exists and its base URL is the configured one
\* without its trailing slashes.
C10_BaseURLRequired ==
    IF rawBaseURL = Undefined \/ rawBaseURL = Str("")
    THEN /\ http.status = "failed"
         /\ Includes(http.error, "VITE_API_BASE_URL is missing")
         /\ \A id \in Slots : inflight[id].state = "free"
         /\ last.op \in {"load", "reload"}
    ELSE /\ http.status = "created"
         /\ http.baseURL.t = "string"
         /\ ~(\E i \in 1..Len(http.baseURL.s) :
                 i = Len(http.baseURL.s) /\ SubSeq(http.baseURL.s, i, i) = "/")
         /\ \E k \in 0..Len(rawBaseURL.s) :
                rawBaseURL.s = http.baseURL.s \o Repeat("/", k)

\* The empty base URL: the page was loaded again and failed again
C10_Witness ==
    /\ rawBaseURL = Str("")
    /\ http.status = "failed"
    /\ last.op = "reload"

-----------------------------------------------------------------------------
(* C11 *)

\* The session is AUTHENTICATED when an access token is stored, else ANONYMOUS
Authenticated(st) == st[ACCESS_KEY] # Null

\* C11: the session state, ANONYMOUS or AUTHENTICATED by the stored access
\* token, changes in three kinds of step only: a successful login takes it to
\* AUTHENTICATED, a logout and the handling of an invalid-token 401 take it to
\* ANONYMOUS.  A successful login always ends AUTHENTICATED, a logout and an
\* invalid-token 401 always end ANONYMOUS; every other step (a dispatch, a
\* successful response, a bad-credentials 401, a 403, a network failure, a
\* navigation, a reload) leaves the session state as it was.
C11_SessionTransitions ==
    [][ /\ last'.op = "login" => Authenticated(storage')
        /\ last'.op = "logout" => ~Authenticated(storage')
        /\ IsInvalidTokenResponse(last') => ~Authenticated(storage')
        /\ Authenticated(storage') # Authenticated(storage) =>
              \/ last'.op = "login"
              \/ last'.op = "logout"
              \/ IsInvalidTokenResponse(last')
      ]_vars

\* A logout ended the session while a request of the session was in flight
C11_Witness ==
    /\ last.op = "logout"
    /\ ~Authenticated(storage)
    /\ \E id \in Slots :
          /\ inflight[id].state = "sent"
          /\ inflight[id].config.headers.Authorization # Undefined

-----------------------------------------------------------------------------
(* C12 *)

\* The provider's answer, as ProtectedRoute reads it
isAuthed == Truthy(accessToken)

\* C12: isAuthed is true exactly when an access token is present in storage,
\* in every state reached by logins, logouts, invalid-token responses and
\* page reloads.
C12_IsAuthedIffStored == isAuthed <=> Authenticated(storage)

-----------------------------------------------------------------------------
(* C13 *)

\* C13: the handling of a successful login response with access token A
\* leaves A as the stored access token and isAuthed true, whatever was
\* stored before; it writes the refresh key when the response has a refresh
\* value; and it navigates to the path the login page was reached from by
\* ProtectedRoute when the form was submitted, to "/" when there was none.
C13_LoginInstallsSession ==
    [][ /\ (last'.op = "dispatch" /\ last'.config.kind = "login") =>
              redirectTo'[last'.id] = (IF from.t = "string" THEN from.s ELSE "/")
        /\ last'.op = "login" =>
              /\ StoredAccess' = Str(last'.data.access)
              /\ accessToken' = Str(last'.data.access)
              /\ isAuthed'
              /\ Truthy(last'.data.refresh) => StoredRefresh' = last'.data.refresh
              /\ pathname' = redirectTo[last'.id]
              /\ pathname' \in ProtectedPaths
      ]_vars

\* The second user logged in over the stored session of the first and landed
\* on the page ProtectedRoute had turned them away from
C13_Witness ==
    /\ last.op = "login"
    /\ last.data = [access |-> "t2", refresh |-> Str("r2")]
    /\ StoredAccess = Str("t2")
    /\ StoredRefresh = Str("r2")
    /\ pathname = "/clients"

-----------------------------------------------------------------------------
(* C14 *)

\* Nobody is logged in: neither storage nor the provider holds an access token
LoggedOut == ~Authenticated(storage) /\ ~isAuthed

\* C14: a logout removes both tokens, sets isAuthed false and navigates to
\* /login; from then until the next successful login every step keeps it so:
\* a request dispatched carries no Authorization header and the page shown
\* is /login, whichever protected route is asked for.
C14_LogoutEndsSession ==
    [][ /\ last'.op = "logout" =>
              /\ SessionCleared'
              /\ LoggedOut'
              /\ pathname' = "/login"
        /\ (LoggedOut /\ last'.op # "login") =>
              /\ LoggedOut'
              /\ pathname' = "/login"
              /\ last'.op = "dispatch" =>
                    last'.config.headers.Authorization = Undefined
              /\ \A path \in ProtectedPaths : Route(path, accessToken') = "/login"
      ]_vars

\* A request of the session is still in flight when, after the logout, the
\* login form sends one that carries no header
C14_Witness ==
    /\ LoggedOut
    /\ pathname = "/login"
    /\ last.op = "dispatch"
    /\ last.config.headers.Authorization = Undefined
    /\ \E id \in Slots :
          /\ inflight[id].state = "sent"
          /\ inflight[id].config.headers.Authorization = Str("Bearer t1")

-----------------------------------------------------------------------------
(* C15 *)

\* The page was loaded in the step that led here
Loaded == last.op \in {"reload", "redirected", "logout-interrupted",
                       "error-interrupted", "login-interrupted"}

\* C15: with no access token in storage the user is unauthenticated, whatever
\* the refresh key holds: a request dispatched carries no Authorization
\* header, and a provider initialised from storage says isAuthed false.
C15_AccessTokenAlone ==
    ~Authenticated(storage) =>
        /\ last.op = "dispatch" => last.config.headers.Authorization = Undefined
        /\ Loaded => ~isAuthed /\ pathname = "/login"

\* A logout was cut after its first removal: only the refresh token is left,
\* the page came up unauthenticated and a request was sent without a header
C15_Witness ==
    /\ ~Authenticated(storage)
    /\ StoredRefresh = Str("r1")
    /\ ~isAuthed
    /\ last.op = "dispatch"
    /\ last.config.headers.Authorization = Undefined

-----------------------------------------------------------------------------
(* C24 *)

\* C24: the page shown is always a page of a route, and it is the login
\* page whenever the provider holds no access token.  Each of the nine
\* protected paths is routed to itself with a token and to /login without
\* one, with the path as state.from, which is the login page's redirectTo.
\* A navigation to a protected path without a token ends on /login with
\* that path as state.from.  The login form submitted there keeps that
\* path (or "/" when the login page was reached otherwise), and the
\* successful login navigates to it.  A navigation to a path of no route
\* ends on "/", or, without a token, on /login with "/" as state.from.
C24_ProtectedRoutes ==
    [][ /\ pathname' \in {"/login"} \cup ProtectedPaths
        /\ ~Truthy(accessToken') => pathname' = "/login"
        /\ \A path \in ProtectedPaths :
              IF Truthy(accessToken')
              THEN Route(path, accessToken') = path
              ELSE /\ Route(path, accessToken') = "/login"
                   /\ RouteState(path, accessToken', Null) = Str(path)
                   /\ RedirectTarget(RouteState(path, accessToken', Null)) = path
        /\ (last'.op = "navigate" /\ last'.path \in ProtectedPaths
               /\ ~Truthy(accessToken')) =>
              pathname' = "/login" /\ from' = Str(last'.path)
        /\ (last'.op = "dispatch" /\ last'.config.kind = "login") =>
              redirectTo'[last'.id] = (IF from.t = "string" THEN from.s ELSE "/")
        /\ last'.op = "login" => pathname' = redirectTo[last'.id]
        /\ (last'.op = "navigate"
               /\ last'.path \notin {"/login"} \cup ProtectedPaths) =>
              IF Truthy(accessToken') THEN pathname' = "/"
              ELSE pathname' = "/login" /\ from' = Str("/")
      ]_vars

\* /invoices was asked for without a token, and the login that followed
\* has brought the user there
C24_Witness ==
    /\ last.op = "login"
    /\ pathname = "/invoices"
    /\ Truthy(accessToken)

-----------------------------------------------------------------------------
(* C25 *)

\* C25: a 401 invalid-token response to a request that was dispatched with
\* the token of one login, handled while the access token of another login
\* is stored, leaves the stored access token and refresh token as they are.
C25_StaleResponseKeepsSession ==
    [][ \A t1, t2 \in AccessTokens :
          ( /\ t1 # t2
            /\ IsInvalidTokenResponse(last')
            /\ inflight[last'.id].config.headers.Authorization = Str("Bearer " \o t1)
            /\ StoredAccess = Str(t2) )
          => (StoredAccess' = Str(t2) /\ StoredRefresh' = StoredRefresh)
      ]_vars

-----------------------------------------------------------------------------
(* C26 *)

\* C26: a refresh token in storage is the one of the login whose access
\* token is stored: there is none without a stored access token, and none
\* of an earlier login after a login whose response had no refresh value.
C26_RefreshOfSameLogin ==
    StoredRefresh # Null =>
        /\ StoredAccess.t = "string"
        /\ StoredRefresh = Str(RefreshFor(StoredAccess.s))

-----------------------------------------------------------------------------
(* api/clients.ts and ClientsPage *)

\* String.prototype.trim, with the space as the white space
RECURSIVE TrimStart(_)
TrimStart(s) ==
    IF Len(s) > 0 /\ SubSeq(s, 1, 1) = " " THEN TrimStart(SubSeq(s, 2, Len(s))) ELSE s
RECURSIVE TrimEnd(_)
TrimEnd(s) ==
    IF Len(s) > 0 /\ SubSeq(s, Len(s), Len(s)) = " "
    THEN TrimEnd(SubSeq(s, 1, Len(s) - 1)) ELSE s
Trim(s) == TrimEnd(TrimStart(s))

\* String(v), for the values a payload field can hold
JsString(v) ==
    CASE v.t = "string" -> v.s
      [] v.t = "null" -> "null"
      [] v.t = "undefined" -> "undefined"
      [] v.t = "boolean" -> IF v.n # 0 THEN "true" ELSE "false"

RequiredFields == {"client_code", "client_prefix", "client_name"}
OptionalFields == {"email", "phone", "address"}

\* A field that the object does not have reads undefined
NoFields ==
    [client_code |-> Undefined, client_prefix |-> Undefined, client_name |-> Undefined,
     email |-> Undefined, phone |-> Undefined, address |-> Undefined,
     is_active |-> Undefined]

\* cleanClientPayload: a required text field is copied trimmed when given
RequiredText(v) == IF v # Undefined THEN Str(Trim(JsString(v))) ELSE Undefined

\* Mutant: an optional field is sent even when it is blank
OptionalText_KeepEmpty(v) == IF v # Undefined THEN Str(Trim(JsString(v))) ELSE Undefined

\* cleanClientPayload: an optional text field is copied trimmed when given
\* and not blank
OptionalText(v) ==
    IF v # Undefined /\ Trim(JsString(v)) # "" THEN Str(Trim(JsString(v))) ELSE Undefined

cleanClientPayload(payload) ==
    [client_code |-> RequiredText(payload.client_code),
     client_prefix |-> RequiredText(payload.client_prefix),
     client_name |-> RequiredText(payload.client_name),
     email |-> OptionalText(payload.email),
     phone |-> OptionalText(payload.phone),
     address |-> OptionalText(payload.address),
     is_active |-> IF payload.is_active # Undefined
                   THEN Bool(Truthy(payload.is_active)) ELSE Undefined]

\* What the user can have typed in a text input of the form
FormTexts == {"", " ", "a b", " a b "}

ClientForms ==
    [client_code : FormTexts, client_prefix : FormTexts, client_name : FormTexts,
     email : FormTexts, phone : FormTexts, address : FormTexts, is_active : BOOLEAN]

emptyForm ==
    [client_code |-> "", client_prefix |-> "", client_name |-> "",
     email |-> "", phone |-> "", address |-> "", is_active |-> TRUE]

\* No request made; createClient posts, updateClient patches the cleaned payload
NoClientCall == [method |-> "", payload |-> NoFields, body |-> NoFields]
createClient(payload) ==
    [method |-> "POST", payload |-> payload, body |-> cleanClientPayload(payload)]
updateClient(payload) ==
    [method |-> "PATCH", payload |-> payload, body |-> cleanClientPayload(payload)]

\* ClientsPage.onSubmit: the payload it builds from the form
FormPayload(form) ==
    [client_code |-> Str(Trim(form.client_code)),
     client_prefix |-> Str(Trim(form.client_prefix)),
     client_name |-> Str(Trim(form.client_name)),
     email |-> Str(form.email),
     phone |-> Str(form.phone),
     address |-> Str(form.address),
     is_active |-> Bool(form.is_active)]

\* ClientsPage.onSubmit: the message of the first required field left blank
RequiredError(payload) ==
    CASE ~Truthy(payload.client_code) -> "Client Code is required."
      [] ~Truthy(payload.client_prefix) -> "Client Prefix is required."
      [] ~Truthy(payload.client_name) -> "Client Name is required."
      [] OTHER -> ""

\* The user has filled the form, to create a client or to edit one
InitClients ==
    /\ SessionInit({Str("http://h/api/")})
    /\ clientsPage \in
         {[form |-> f, editing |-> e, error |-> "", call |-> NoClientCall] :
             f \in ClientForms, e \in BOOLEAN}
    /\ invoicesPage = Unmounted
    /\ trackerPage = Unmounted
    /\ documentsApi = Unmounted
    /\ listsApi = Unmounted

\* ClientsPage.onSubmit; after a save cancelEdit empties the form
ClientsSubmit ==
    /\ clientsPage.call = NoClientCall
    /\ clientsPage.error = ""
    /\ LET payload == FormPayload(clientsPage.form) IN
         clientsPage' =
            IF RequiredError(payload) # ""
            THEN [clientsPage EXCEPT !.error = RequiredError(payload)]
            ELSE [form |-> emptyForm, editing |-> FALSE, error |-> "",
                  call |-> IF clientsPage.editing THEN updateClient(payload)
                           ELSE createClient(payload)]
    /\ UNCHANGED <<sessionVars, invoicesPage, trackerPage, documentsApi, listsApi>>

\* ClientsPage.cancelEdit
ClientsCancelEdit ==
    /\ clientsPage.editing
    /\ clientsPage' = [clientsPage EXCEPT !.editing = FALSE, !.form = emptyForm]
    /\ UNCHANGED <<sessionVars, invoicesPage, trackerPage, documentsApi, listsApi>>

NextClients == ClientsSubmit \/ ClientsCancelEdit
SpecClients == InitClients /\ [][NextClients]_vars

-----------------------------------------------------------------------------
(* InvoicesPage and api/invoices.ts *)

InvoiceIds == {"i1", "i2"}

\* What an invoice action makes of the status when the backend accepts it
ActionStatus ==
    [issue |-> "ISSUED", mark_partial |-> "PARTIALLY_PAID", mark_paid |-> "PAID",
     void |-> "VOID"]
InvoiceActions == DOMAIN ActionStatus

\* An invoice object as the page holds it; null
Invoice(id, status) == [id |-> id, status |-> status]
NoInvoice == Invoice("", "")

\* GET /invoices/: the invoices the backend has now
ListInvoices(server) == {Invoice(id, server[id]) : id \in {i \in InvoiceIds : server[i] # "DELETED"}}

\* inv.find((x) => x.id === id) ?? null
FindInvoice(list, id) ==
    IF \E x \in list : x.id = id THEN CHOOSE x \in list : x.id = id ELSE NoInvoice

canEditInvoiceFields(status) == status = "DRAFT"

PageOps == 1..MaxPageOps

\* A call awaiting its response, with the selectedInvoice of the render whose
\* handler made it: that is the one its refreshAll will read
NoOp == [kind |-> "free", id |-> "", act |-> "", sel |-> NoInvoice]
PageOp(kind, id, act, sel) == [kind |-> kind, id |-> id, act |-> act, sel |-> sel]

\* The last thing the page did: a call sent, a response handled
PageEvent(op, id, listed) == [op |-> op, id |-> id, listed |-> listed]

FreeOps == {i \in PageOps : invoicesPage.ops[i].kind = "free"}
FirstFreeOp == CHOOSE i \in FreeOps : \A j \in FreeOps : i <= j

\* The page is mounted: both invoices are drafts on the backend, the list is
\* empty and the refreshAll of the mount effect is in flight
InitInvoices ==
    /\ SessionInit({Str("http://h/api/")})
    /\ invoicesPage =
         [server |-> [id \in InvoiceIds |-> "DRAFT"],
          invoices |-> {},
          editing |-> NoInvoice,
          selectedInvoice |-> NoInvoice,
          saving |-> FALSE,
          busyActionId |-> "",
          error |-> "",
          ops |-> [i \in PageOps |->
                     IF i = 1 THEN PageOp("refresh", "", "", NoInvoice) ELSE NoOp],
          done |-> PageEvent("mount", "", "")]
    /\ clientsPage = Unmounted
    /\ trackerPage = Unmounted
    /\ documentsApi = Unmounted
    /\ listsApi = Unmounted

OtherThanInvoices == <<sessionVars, clientsPage, trackerPage, documentsApi, listsApi>>

\* The Refresh button: refreshAll
InvRefresh ==
    /\ FreeOps # {}
    /\ invoicesPage' =
         [invoicesPage EXCEPT
            !.error = "",
            !.ops[FirstFreeOp] = PageOp("refresh", "", "", invoicesPage.selectedInvoice),
            !.done = PageEvent("listInvoices", "", "")]
    /\ UNCHANGED OtherThanInvoices

\* refreshAll after its await: the lists are stored, the selection is looked
\* up in the new list when the closure had one.  A refresh that ends a
\* runAction or an onSubmit ends their busy state as well.
InvRefreshDone(i) ==
    /\ invoicesPage.ops[i].kind = "refresh"
    /\ LET op == invoicesPage.ops[i]
           inv == ListInvoices(invoicesPage.server)
       IN  invoicesPage' =
             [invoicesPage EXCEPT
                !.invoices = inv,
                !.selectedInvoice =
                    IF op.sel # NoInvoice THEN FindInvoice(inv, op.sel.id) ELSE @,
                !.busyActionId = IF op.act = "runAction" THEN "" ELSE @,
                !.saving = IF op.act = "onSubmit" THEN FALSE ELSE @,
                !.ops[i] = NoOp,
                !.done = PageEvent("refreshed", "", "")]
    /\ UNCHANGED OtherThanInvoices

\* refreshAll: the load fails
InvRefreshFail(i) ==
    /\ invoicesPage.ops[i].kind = "refresh"
    /\ invoicesPage' =
         [invoicesPage EXCEPT
            !.error = "Failed to load invoices.",
            !.busyActionId = IF invoicesPage.ops[i].act = "runAction" THEN "" ELSE @,
            !.saving = IF invoicesPage.ops[i].act = "onSubmit" THEN FALSE ELSE @,
            !.ops[i] = NoOp,
            !.done = PageEvent("refresh-failed", "", "")]
    /\ UNCHANGED OtherThanInvoices

\* A row's Issue, Partial, Paid or Void button: runAction up to its await
InvRunAction(x, act) ==
    /\ x \in invoicesPage.invoices
    /\ invoicesPage.busyActionId # x.id
    /\ FreeOps # {}
    /\ invoicesPage' =
         [invoicesPage EXCEPT
            !.error = "",
            !.busyActionId = x.id,
            !.ops[FirstFreeOp] = PageOp("action", x.id, act, invoicesPage.selectedInvoice),
            !.done = PageEvent(act, x.id, x.status)]
    /\ UNCHANGED OtherThanInvoices

\* The backend answers the action: accepted, the invoice has the new status
\* and runAction goes on to refreshAll; refused, runAction shows the error
InvActionDone(i, ok) ==
    /\ invoicesPage.ops[i].kind = "action"
    /\ LET op == invoicesPage.ops[i] IN
         invoicesPage' =
            IF ok /\ invoicesPage.server[op.id] # "DELETED"
            THEN [invoicesPage EXCEPT
                    !.server[op.id] = ActionStatus[op.act],
                    !.ops[i] = PageOp("refresh", "", "runAction", op.sel),
                    !.done = PageEvent("action-done", op.id, "")]
            ELSE [invoicesPage EXCEPT
                    !.error = "Action failed.",
                    !.busyActionId = "",
                    !.ops[i] = NoOp,
                    !.done = PageEvent("action-failed", op.id, "")]
    /\ UNCHANGED OtherThanInvoices

\* A row's Edit button
InvStartEdit(x) ==
    /\ x \in invoicesPage.invoices
    /\ invoicesPage' =
         [invoicesPage EXCEPT !.editing = x, !.done = PageEvent("startEdit", x.id, x.status)]
    /\ UNCHANGED OtherThanInvoices

InvCancelEdit ==
    /\ invoicesPage.editing # NoInvoice
    /\ invoicesPage' =
         [invoicesPage EXCEPT !.editing = NoInvoice, !.done = PageEvent("cancelEdit", "", "")]
    /\ UNCHANGED OtherThanInvoices

\* The status the list on the page shows for an invoice
Listed(id) == FindInvoice(invoicesPage.invoices, id).status

\* onSubmit up to its await: a form without job or number is refused; in
\* edit mode an invoice that cannot be edited is refused, else updateInvoice
\* is sent; in create mode createInvoice is sent
InvSubmit(formValid) ==
    /\ ~invoicesPage.saving
    /\ FreeOps # {}
    /\ LET editing == invoicesPage.editing IN
         invoicesPage' =
            CASE ~formValid ->
                    [invoicesPage EXCEPT
                       !.error = "Invoice number is required.",
                       !.done = PageEvent("refused-form", editing.id, Listed(editing.id))]
              [] formValid /\ editing # NoInvoice /\ ~canEditInvoiceFields(editing.status) ->
                    [invoicesPage EXCEPT
                       !.error = "Only DRAFT invoices can be edited.",
                       !.done = PageEvent("refused-status", editing.id, Listed(editing.id))]
              [] formValid /\ editing # NoInvoice /\ canEditInvoiceFields(editing.status) ->
                    [invoicesPage EXCEPT
                       !.error = "",
                       !.saving = TRUE,
                       !.ops[FirstFreeOp] =
                           PageOp("update", editing.id, "", invoicesPage.selectedInvoice),
                       !.done = PageEvent("updateInvoice", editing.id, Listed(editing.id))]
              [] formValid /\ editing = NoInvoice ->
                    [invoicesPage EXCEPT
                       !.error = "",
                       !.saving = TRUE,
                       !.ops[FirstFreeOp] =
                           PageOp("create", "", "", invoicesPage.selectedInvoice),
                       !.done = PageEvent("createInvoice", "", "")]
    /\ UNCHANGED OtherThanInvoices

\* The backend answers updateInvoice or createInvoice: saved, onSubmit leaves
\* edit mode and goes on to refreshAll; refused, it shows the error.  A new
\* invoice is not one of the two the model follows.
InvSaveDone(i, ok) ==
    /\ invoicesPage.ops[i].kind \in {"update", "create"}
    /\ LET op == invoicesPage.ops[i] IN
         invoicesPage' =
            IF ok
            THEN [invoicesPage EXCEPT
                    !.editing = NoInvoice,
                    !.ops[i] = PageOp("refresh", "", "onSubmit", op.sel),
                    !.done = PageEvent("saved", op.id, "")]
            ELSE [invoicesPage EXCEPT
                    !.error = "Failed to save invoice.",
                    !.saving = FALSE,
                    !.ops[i] = NoOp,
                    !.done = PageEvent("save-failed", op.id, "")]
    /\ UNCHANGED OtherThanInvoices

\* A row's Addons button; the Close button of the addons panel
InvOpenAddons(x) ==
    /\ x \in invoicesPage.invoices
    /\ invoicesPage' =
         [invoicesPage EXCEPT
            !.selectedInvoice = x, !.done = PageEvent("openAddons", x.id, x.status)]
    /\ UNCHANGED OtherThanInvoices

InvCloseAddons ==
    /\ invoicesPage.selectedInvoice # NoInvoice
    /\ invoicesPage' =
         [invoicesPage EXCEPT
            !.selectedInvoice = NoInvoice, !.done = PageEvent("closeAddons", "", "")]
    /\ UNCHANGED OtherThanInvoices

\* A row's Delete button, confirmed: onDelete up to its await
InvDelete(x) ==
    /\ x \in invoicesPage.invoices
    /\ FreeOps # {}
    /\ invoicesPage' =
         [invoicesPage EXCEPT
            !.error = "",
            !.ops[FirstFreeOp] = PageOp("delete", x.id, "", invoicesPage.selectedInvoice),
            !.done = PageEvent("deleteInvoice", x.id, x.status)]
    /\ UNCHANGED OtherThanInvoices

\* The backend answers deleteInvoice: deleted, onDelete drops the selection
\* when its closure had this invoice selected and goes on to refreshAll
InvDeleteDone(i, ok) ==
    /\ invoicesPage.ops[i].kind = "delete"
    /\ LET op == invoicesPage.ops[i] IN
         invoicesPage' =
            IF ok /\ invoicesPage.server[op.id] # "DELETED"
            THEN [invoicesPage EXCEPT
                    !.server[op.id] = "DELETED",
                    !.selectedInvoice = IF op.sel.id = op.id THEN NoInvoice ELSE @,
                    !.ops[i] = PageOp("refresh", "", "onDelete", op.sel),
                    !.done = PageEvent("deleted", op.id, "")]
            ELSE [invoicesPage EXCEPT
                    !.error = "Failed to delete invoice.",
                    !.ops[i] = NoOp,
                    !.done = PageEvent("delete-failed", op.id, "")]
    /\ UNCHANGED OtherThanInvoices

\* What every use of the page has: loads and the invoice actions
InvoiceStep(ids, acts) ==
    \/ InvRefresh
    \/ \E i \in PageOps : InvRefreshDone(i)
    \/ \E i \in PageOps : InvRefreshFail(i)
    \/ \E id \in ids, st \in {"DRAFT"} \cup {ActionStatus[a] : a \in acts}, act \in acts :
          InvRunAction(Invoice(id, st), act)
    \/ \E i \in PageOps, ok \in BOOLEAN : InvActionDone(i, ok)

\* Editing: the first invoice goes through its statuses while either invoice
\* is edited
AllInvoices == {Invoice(id, st) : id \in InvoiceIds,
                                 st \in {"DRAFT"} \cup {ActionStatus[a] : a \in InvoiceActions}}
NextInvoiceEdit ==
    \/ InvoiceStep({"i1"}, InvoiceActions)
    \/ \E x \in AllInvoices : InvStartEdit(x)
    \/ InvCancelEdit
    \/ \E formValid \in BOOLEAN : InvSubmit(formValid)
    \/ \E i \in PageOps, ok \in BOOLEAN : InvSaveDone(i, ok)
SpecInvoiceEdit == InitInvoices /\ [][NextInvoiceEdit]_vars

\* Selecting: the first invoice is issued, voided or deleted while either
\* invoice has its addons panel open
NextInvoiceSelect ==
    \/ InvoiceStep({"i1"}, {"issue", "void"})
    \/ \E x \in AllInvoices : InvOpenAddons(x)
    \/ InvCloseAddons
    \/ \E x \in AllInvoices : InvDelete(x)
    \/ \E i \in PageOps, ok \in BOOLEAN : InvDeleteDone(i, ok)
SpecInvoiceSelect == InitInvoices /\ [][NextInvoiceSelect]_vars

\* C17: updateInvoice is sent only for an invoice that the page lists as
\* DRAFT, whatever start-edits, invoice actions, refreshes and submits came
\* before; a submit in edit mode that is refused for the status shows
\* "Only DRAFT invoices can be edited." and sends nothing.
C17_UpdateOnlyDraft ==
    /\ invoicesPage.done.op = "updateInvoice" => invoicesPage.done.listed = "DRAFT"
    /\ invoicesPage.done.op = "refused-status" =>
          /\ invoicesPage.error = "Only DRAFT invoices can be edited."
          /\ \A i \in PageOps : invoicesPage.ops[i].kind # "update"

\* C18: when a refreshAll has completed, selectedInvoice is null or an
\* element of the list just loaded: never a copy from an older list, never
\* an invoice the list no longer has.
C18_SelectionFresh ==
    invoicesPage.done.op = "refreshed" =>
        \/ invoicesPage.selectedInvoice = NoInvoice
        \/ invoicesPage.selectedInvoice \in invoicesPage.invoices

-----------------------------------------------------------------------------
(* TrackerPage.loadMilestones and api/jobMilestones.ts *)

JobIds == {"j1", "j2"}

Milestone(id, job, sort_order, template_label, template_key, template) ==
    [id |-> id, job |-> job, sort_order |-> sort_order,
     template_label |-> template_label, template_key |-> template_key,
     template |-> template]

\* The rows of the backend: two of the same sort order, one without sort
\* order, one above 10000, a row of another job whose sort order is null;
\* labels given, or empty with a key, or missing with the template only
BackendMilestones ==
    { Milestone("m1", "j1", Num(2), Str("b"), Str("k"), "t1"),
      Milestone("m2", "j1", Num(2), Str(""), Str("a"), "t2"),
      Milestone("m3", "j1", Undefined, Undefined, Undefined, "t"),
      Milestone("m4", "j1", Num(20000), Str("a"), Undefined, "t4"),
      Milestone("m5", "j2", Null, Str("z"), Undefined, "t5") }

\* Bodies of GET /job-milestones/?job=: rows in any order, of the job asked
\* for or, when the backend ignores the filter, of any job
MilestoneLists ==
    UNION {{ms \in [1..n -> BackendMilestones] : \A i, j \in 1..n : i # j => ms[i] # ms[j]} :
              n \in 0..MaxMilestones}

\* Mutant: the page trusts the backend's filter
FilterByJob_Trusting(ms, jobId) == ms

\* loadMilestones: ms.filter((x) => x.job === jobId) when some row is of
\* another job
FilterByJob(ms, jobId) ==
    IF Len(ms) # 0 /\ \E i \in 1..Len(ms) : ms[i].job # jobId
    THEN SelectSeq(ms, LAMBDA x : x.job = jobId)
    ELSE ms

safeLabel(m) ==
    IF Truthy(m.template_label) THEN m.template_label.s
    ELSE IF Truthy(m.template_key) THEN m.template_key.s
    ELSE m.template

\* a.localeCompare(b) for words of lower-case letters and digits: -1, 0 or 1
CharRank(c) ==
    LET order == "0123456789abcdefghijklmnopqrstuvwxyz"
    IN  CHOOSE i \in 1..Len(order) : SubSeq(order, i, i) = c
RECURSIVE localeCompare(_, _)
localeCompare(a, b) ==
    CASE Len(a) = 0 /\ Len(b) = 0 -> 0
      [] Len(a) = 0 /\ Len(b) # 0 -> -1
      [] Len(a) # 0 /\ Len(b) = 0 -> 1
      [] OTHER ->
           LET ca == CharRank(SubSeq(a, 1, 1))
               cb == CharRank(SubSeq(b, 1, 1))
           IN  IF ca < cb THEN -1
               ELSE IF ca > cb THEN 1
               ELSE localeCompare(SubSeq(a, 2, Len(a)), SubSeq(b, 2, Len(b)))

\* The comparator of the sort in loadMilestones
CompareMilestones(a, b) ==
    LET ao == IF a.sort_order.t = "number" THEN a.sort_order.n ELSE 10000
        bo == IF b.sort_order.t = "number" THEN b.sort_order.n ELSE 10000
    IN  IF ao # bo THEN ao - bo ELSE localeCompare(safeLabel(a), safeLabel(b))

\* Array.prototype.sort, which is stable: each element goes after the
\* elements already placed that do not compare greater
RECURSIVE InsertSorted(_, _)
InsertSorted(sorted, x) ==
    IF Len(sorted) = 0 THEN <<x>>
    ELSE IF CompareMilestones(sorted[Len(sorted)], x) <= 0 THEN Append(sorted, x)
    ELSE Append(InsertSorted(SubSeq(sorted, 1, Len(sorted) - 1), x), sorted[Len(sorted)])
RECURSIVE SortMilestones(_)
SortMilestones(ms) ==
    IF Len(ms) = 0 THEN <<>>
    ELSE InsertSorted(SortMilestones(SubSeq(ms, 1, Len(ms) - 1)), ms[Len(ms)])

\* What loadMilestones stores for a list received and the job asked for
StoredMilestones ==
    [received \in MilestoneLists |->
        [jobId \in JobIds |-> SortMilestones(FilterByJob(received, jobId))]]

\* The list received has rows of another job
Foreign(received, jobId) == \E k \in 1..Len(received) : received[k].job # jobId

\* The page is mounted with no job selected
InitTracker ==
    /\ SessionInit({Str("http://h/api/")})
    /\ trackerPage =
         [selectedJobId |-> "",
          milestones |-> <<>>,
          error |-> "",
          info |-> "",
          loads |-> [i \in 1..MaxPageOps |-> ""],
          done |-> [op |-> "mount", jobId |-> "", foreign |-> FALSE]]
    /\ clientsPage = Unmounted
    /\ invoicesPage = Unmounted
    /\ documentsApi = Unmounted
    /\ listsApi = Unmounted

\* The job select changes: the effect on selectedJobId calls loadMilestones,
\* which runs up to its await, or empties the milestones when no job is chosen
TrackerSelectJob(jobId) ==
    /\ jobId # trackerPage.selectedJobId
    /\ IF jobId = ""
       THEN trackerPage' =
              [trackerPage EXCEPT
                 !.selectedJobId = "",
                 !.milestones = <<>>,
                 !.done = [op |-> "cleared", jobId |-> "", foreign |-> FALSE]]
       ELSE /\ \E i \in 1..MaxPageOps : trackerPage.loads[i] = ""
            /\ LET i == CHOOSE i \in 1..MaxPageOps : trackerPage.loads[i] = "" IN
                 trackerPage' =
                   [trackerPage EXCEPT
                      !.selectedJobId = jobId,
                      !.error = "",
                      !.info = "",
                      !.loads[i] = jobId,
                      !.done = [op |-> "listJobMilestones", jobId |-> jobId,
                                foreign |-> FALSE]]
    /\ UNCHANGED <<sessionVars, clientsPage, invoicesPage, documentsApi, listsApi>>

\* loadMilestones after its await, the list received: filter, sort, store
TrackerLoaded(i, received) ==
    /\ trackerPage.loads[i] # ""
    /\ LET jobId == trackerPage.loads[i]
           ms == StoredMilestones[received][jobId]
       IN  trackerPage' =
             [trackerPage EXCEPT
                !.milestones = ms,
                !.info = IF Len(ms) = 0 THEN "No milestones found for this job yet." ELSE @,
                !.loads[i] = "",
                !.done = [op |-> "loaded", jobId |-> jobId,
                          foreign |-> Foreign(received, jobId)]]
    /\ UNCHANGED <<sessionVars, clientsPage, invoicesPage, documentsApi, listsApi>>

\* loadMilestones: the request fails
TrackerLoadFailed(i) ==
    /\ trackerPage.loads[i] # ""
    /\ trackerPage' =
         [trackerPage EXCEPT
            !.error = "Failed to load milestones.",
            !.loads[i] = "",
            !.done = [op |-> "load-failed", jobId |-> trackerPage.loads[i],
                      foreign |-> FALSE]]
    /\ UNCHANGED <<sessionVars, clientsPage, invoicesPage, documentsApi, listsApi>>

NextTracker ==
    \/ \E jobId \in JobIds \cup {""} : TrackerSelectJob(jobId)
    \/ \E i \in 1..MaxPageOps, received \in MilestoneLists : TrackerLoaded(i, received)
    \/ \E i \in 1..MaxPageOps : TrackerLoadFailed(i)
SpecTracker == InitTracker /\ [][NextTracker]_vars

\* The rank of a milestone: its numeric sort_order, 10000 without one
SortRank(m) == IF m.sort_order.t = "number" THEN m.sort_order.n ELSE 10000

\* C19: when loadMilestones(jobId) has succeeded, every milestone of the
\* state is of job jobId, also when the backend sent rows of other jobs; the
\* milestones are in ascending order of sort_order, one without a numeric
\* sort_order counting as 10000, and among equal ranks in the order of
\* their labels (template_label, else template_key, else template).
C19_FilteredAndSorted ==
    trackerPage.done.op = "loaded" =>
        LET ms == trackerPage.milestones IN
        /\ \A k \in 1..Len(ms) : ms[k].job = trackerPage.done.jobId
        /\ \A k \in 1..(Len(ms) - 1) :
              \/ SortRank(ms[k]) < SortRank(ms[k + 1])
              \/ /\ SortRank(ms[k]) = SortRank(ms[k + 1])
                 /\ localeCompare(safeLabel(ms[k]), safeLabel(ms[k + 1])) <= 0

\* The backend ignored the filter: the row of the other job is gone and the
\* two rows of rank 2 are in the order of their labels
C19_Witness ==
    /\ trackerPage.done.op = "loaded"
    /\ trackerPage.done.jobId = "j1"
    /\ trackerPage.done.foreign
    /\ Len(trackerPage.milestones) = 2
    /\ trackerPage.milestones[1].id = "m2"
    /\ trackerPage.milestones[2].id = "m1"

-----------------------------------------------------------------------------
(* api/documents.ts: uploadDocument *)

\* Values of a flag of the build's environment
EnvFlags == {Undefined, Str("true"), Str("false"), Str("TRUE")}

\* import.meta.env.VITE_... === "true"
FlagOn(raw) == raw = Str("true")

\* Bodies of a successful upload-url response: the URL there, empty or
\* missing; the method PUT, POST or missing; the form fields an object or
\* missing; the key and the token of the finalize call there or missing
SignedInits ==
    {[upload_url |-> u, method |-> m, fields |-> f, upload_key |-> k,
      finalize_token |-> t] :
        u \in {Undefined, Str(""), Str("https://store/put")},
        m \in {Undefined, Str("PUT"), Str("POST")},
        f \in {Undefined, Obj("policy")},
        k \in {Undefined, Str("k1")},
        t \in {Undefined, Str("f1")}}
NoSignedInit ==
    [upload_url |-> Undefined, method |-> Undefined, fields |-> Undefined,
     upload_key |-> Undefined, finalize_token |-> Undefined]

\* Outcomes of a request: a response with a status, none for a network failure
Responses == {[status |-> st] : st \in {0, 200, 405, 500}}
Ok(res) == res.status = 200

\* The requests of the two strategies
InitPost == "POST /documents/upload-url/"
InitGet == "GET /documents/upload-url/"
StorePut == "PUT upload_url"
StorePost == "POST upload_url"
Finalize == "POST /documents/complete-upload/"
Multipart == "POST /documents/"
SignedRequests == {InitPost, InitGet, StorePut, StorePost, Finalize}

\* What a request of uploadDocument carries: its method and URL, the query
\* parameters, the body, the form fields put before the file, and the key
\* and token of a finalize payload
Sending(method, url, params, body) ==
    [method |-> method, url |-> url, params |-> params, body |-> body,
     fields |-> "", upload_key |-> Undefined, finalize_token |-> Undefined]

\* Mutant: the file goes to the store with PUT whatever the response says
Carried_AlwaysPut(request, signed) ==
    CASE request = InitPost ->
           Sending("POST", "/documents/upload-url/", "", "initPayload")
      [] request = InitGet ->
           Sending("GET", "/documents/upload-url/", "initPayload", "")
      [] request \in {StorePut, StorePost} ->
           Sending("PUT", signed.upload_url.s, "", "file")
      [] request = Finalize ->
           [Sending("POST", "/documents/complete-upload/", "", "finalizePayload")
              EXCEPT !.upload_key = signed.upload_key,
                     !.finalize_token = signed.finalize_token]
      [] OTHER -> Sending("POST", "/documents/", "", "multipart")

\* The request as initSignedUpload, uploadDocumentSigned and
\* uploadDocumentMultipart build it; signed is the upload-url response
Carried(request, signed) ==
    CASE request = InitPost ->
           Sending("POST", "/documents/upload-url/", "", "initPayload")
      [] request = InitGet ->
           Sending("GET", "/documents/upload-url/", "initPayload", "")
      [] request = StorePut ->
           Sending("PUT", signed.upload_url.s, "", "file")
      [] request = StorePost ->
           [Sending("POST", signed.upload_url.s, "", "formData")
              EXCEPT !.fields = IF Truthy(signed.fields) THEN signed.fields.s
                                ELSE ""]
      [] request = Finalize ->
           [Sending("POST", "/documents/complete-upload/", "", "finalizePayload")
              EXCEPT !.upload_key = signed.upload_key,
                     !.finalize_token = signed.finalize_token]
      [] OTHER -> Sending("POST", "/documents/", "", "multipart")

\* The error axios rejects a request with
StatusText(status) ==
    CASE status = 0 -> "Network Error"
      [] status = 405 -> "status code 405"
      [] OTHER -> "status code 500"
AxiosError(request, res) == request \o ": " \o StatusText(res.status)

\* A build with its two flags, and no upload going on
InitDocuments ==
    /\ SessionInit({Str("http://h/api/")})
    /\ documentsApi \in
         {[useSignedUpload |-> u, allowSignedFallback |-> f, awaiting |-> "",
           signed |-> NoSignedInit, calls |-> <<>>, sent |-> <<>>,
           statuses |-> <<>>, signedResult |-> "",
           result |-> "", error |-> ""] : u, f \in EnvFlags}
    /\ clientsPage = Unmounted
    /\ invoicesPage = Unmounted
    /\ trackerPage = Unmounted
    /\ listsApi = Unmounted

OtherThanDocuments == <<sessionVars, clientsPage, invoicesPage, trackerPage, listsApi>>

\* The request is sent and awaited
Request(d, request) ==
    [d EXCEPT !.awaiting = request, !.calls = Append(@, request),
              !.sent = Append(@, Carried(request, d.signed))]

\* The awaited request is answered
Answered(d, res) == [d EXCEPT !.statuses = Append(@, res.status)]

\* Mutant: the GET is tried after every failure of the POST
RetryWithGet_AnyFailure(res) == ~Ok(res)

\* err?.response?.status !== 405 throws err; else the GET is tried
RetryWithGet(res) == res.status = 405

\* Mutant: the multipart upload is tried whatever the fallback flag says
SignedFailed_AlwaysFallback(d, error) ==
    Request([d EXCEPT !.signedResult = error], Multipart)

\* uploadDocumentSigned throws: uploadDocument swallows the error and goes on
\* to the multipart upload when the fallback is allowed, else it rejects
SignedFailed(d, error) ==
    IF FlagOn(d.allowSignedFallback)
    THEN Request([d EXCEPT !.signedResult = error], Multipart)
    ELSE [d EXCEPT !.signedResult = error, !.awaiting = "", !.result = "rejected",
                   !.error = error]

\* uploadDocumentSigned after initSignedUpload: the URL is checked, the file
\* is sent to the store with the method of the response, PUT by default
SignedInitDone(d, signed) ==
    IF ~Truthy(signed.upload_url)
    THEN SignedFailed([d EXCEPT !.signed = signed], "Signed upload URL missing.")
    ELSE Request([d EXCEPT !.signed = signed],
                 IF signed.method = Str("POST") THEN StorePost ELSE StorePut)

\* uploadDocument is called: the strategy is chosen from the flags
DocUpload ==
    /\ documentsApi.awaiting = ""
    /\ documentsApi.calls = <<>>
    /\ documentsApi' =
         IF FlagOn(documentsApi.useSignedUpload)
         THEN Request(documentsApi, InitPost)
         ELSE Request(documentsApi, Multipart)
    /\ UNCHANGED OtherThanDocuments

\* initSignedUpload: the POST is answered; a 405 is retried as a GET
DocInitPostDone(res, signed) ==
    /\ documentsApi.awaiting = InitPost
    /\ documentsApi' =
         LET d == Answered(documentsApi, res) IN
         CASE Ok(res) -> SignedInitDone(d, signed)
           [] RetryWithGet(res) -> Request(d, InitGet)
           [] OTHER -> SignedFailed(d, AxiosError(InitPost, res))
    /\ UNCHANGED OtherThanDocuments

\* initSignedUpload: the GET is answered
DocInitGetDone(res, signed) ==
    /\ documentsApi.awaiting = InitGet
    /\ documentsApi' =
         LET d == Answered(documentsApi, res) IN
         IF Ok(res) THEN SignedInitDone(d, signed)
         ELSE SignedFailed(d, AxiosError(InitGet, res))
    /\ UNCHANGED OtherThanDocuments

\* uploadDocumentSigned: the store answers the fetch; then the finalize call
DocStoreDone(res) ==
    /\ documentsApi.awaiting \in {StorePut, StorePost}
    /\ documentsApi' =
         LET d == Answered(documentsApi, res) IN
         IF Ok(res) THEN Request(d, Finalize)
         ELSE SignedFailed(d, "Signed upload failed.")
    /\ UNCHANGED OtherThanDocuments

\* uploadDocumentSigned: complete-upload is answered
DocFinalizeDone(res) ==
    /\ documentsApi.awaiting = Finalize
    /\ documentsApi' =
         LET d == Answered(documentsApi, res) IN
         IF Ok(res)
         THEN [d EXCEPT !.signedResult = "ok", !.awaiting = "",
                        !.result = "resolved"]
         ELSE SignedFailed(d, "complete-upload failed")
    /\ UNCHANGED OtherThanDocuments

\* uploadDocumentMultipart: the POST is answered
DocMultipartDone(res) ==
    /\ documentsApi.awaiting = Multipart
    /\ documentsApi' =
         LET d == Answered(documentsApi, res) IN
         IF Ok(res)
         THEN [d EXCEPT !.awaiting = "", !.result = "resolved"]
         ELSE [d EXCEPT !.awaiting = "", !.result = "rejected",
                        !.error = "multipart failed"]
    /\ UNCHANGED OtherThanDocuments

NextDocuments ==
    \/ DocUpload
    \/ \E res \in Responses, signed \in SignedInits : DocInitPostDone(res, signed)
    \/ \E res \in Responses, signed \in SignedInits : DocInitGetDone(res, signed)
    \/ \E res \in Responses : DocStoreDone(res)
    \/ \E res \in Responses : DocFinalizeDone(res)
    \/ \E res \in Responses : DocMultipartDone(res)
SpecDocuments == InitDocuments /\ [][NextDocuments]_vars

\* The requests made so far that belong to a strategy
CallsOf(requests) ==
    {k \in 1..Len(documentsApi.calls) : documentsApi.calls[k] \in requests}

\* C20: with signed uploads off only the multipart upload is made.  With
\* signed uploads on and the fallback off only the signed upload is made and
\* its error is the error of uploadDocument.  With both on the signed upload
\* comes first and the multipart upload is made once, after the signed
\* upload has failed, whatever the failure.  The multipart upload is never
\* made after a signed upload that succeeded.
C20_UploadStrategy ==
    LET d == documentsApi
        signedOn == d.useSignedUpload = Str("true")
        fallbackOn == d.allowSignedFallback = Str("true")
    IN  d.calls # <<>> =>
          /\ Cardinality(CallsOf({Multipart})) <= 1
          /\ ~signedOn => CallsOf(SignedRequests) = {}
          /\ signedOn => d.calls[1] = InitPost
          /\ (signedOn /\ ~fallbackOn) =>
                /\ CallsOf({Multipart}) = {}
                /\ d.signedResult \notin {"", "ok"} =>
                      d.result = "rejected" /\ d.error = d.signedResult
          /\ (signedOn /\ fallbackOn) =>
                /\ d.signedResult \notin {"", "ok"} <=> CallsOf({Multipart}) # {}
                /\ \A k \in CallsOf({Multipart}) : k = Len(d.calls)
          /\ d.signedResult = "ok" => CallsOf({Multipart}) = {}

\* Both flags on: the file reached the store, complete-upload failed, and
\* the multipart upload that followed succeeded
C20_Witness ==
    /\ documentsApi.useSignedUpload = Str("true")
    /\ documentsApi.allowSignedFallback = Str("true")
    /\ documentsApi.calls = <<InitPost, StorePut, Finalize, Multipart>>
    /\ documentsApi.signedResult = "complete-upload failed"
    /\ documentsApi.result = "resolved"

\* C21: initSignedUpload asks for the signed URL with POST first, the payload
\* in the body.  The GET, with the payload as query parameters, is made at
\* most once, directly after the POST, and exactly when the POST failed with
\* status 405.  A POST that failed otherwise, or a GET that failed, is the
\* error of the signed upload, and no request of the signed upload follows.
C21_InitRetry ==
    LET d == documentsApi
        posts == CallsOf({InitPost})
        gets == CallsOf({InitGet})
        failed(k) == Len(d.statuses) >= k /\ d.statuses[k] # 200
    IN  /\ posts \subseteq {1}
        /\ gets \subseteq {2}
        /\ CallsOf(SignedRequests) # {} => posts = {1}
        /\ \A k \in posts :
              d.sent[k] = Sending("POST", "/documents/upload-url/", "", "initPayload")
        /\ \A k \in gets :
              d.sent[k] = Sending("GET", "/documents/upload-url/", "initPayload", "")
        /\ gets = {2} <=> (posts = {1} /\ failed(1) /\ d.statuses[1] = 405)
        /\ (posts = {1} /\ failed(1) /\ d.statuses[1] # 405) =>
              /\ d.signedResult = AxiosError(InitPost, [status |-> d.statuses[1]])
              /\ CallsOf(SignedRequests) = {1}
        /\ (gets = {2} /\ failed(2)) =>
              /\ d.signedResult = AxiosError(InitGet, [status |-> d.statuses[2]])
              /\ CallsOf(SignedRequests) = {1, 2}

\* The POST was refused with 405, the GET as well: no third attempt, and
\* with the fallback off the error of the GET is the error of uploadDocument
C21_Witness ==
    /\ documentsApi.calls = <<InitPost, InitGet>>
    /\ documentsApi.statuses = <<405, 405>>
    /\ documentsApi.sent[2].params = "initPayload"
    /\ documentsApi.result = "rejected"
    /\ documentsApi.error = AxiosError(InitGet, [status |-> 405])

\* The place of a request in a signed upload: init, file transfer, finalize
StepOf(request) ==
    CASE request \in {InitPost, InitGet} -> 1
      [] request \in {StorePut, StorePost} -> 2
      [] OTHER -> 3

\* C23: in a signed upload the file transfer is made at most once and
\* directly after an init request answered with an ok status, and only if
\* that answer has a non-empty upload_url: without one the signed upload
\* fails with "Signed upload URL missing." and nothing is transferred.  The
\* finalize request is made at most once and directly after a file transfer
\* answered with an ok status.  The transfer goes to the upload_url, as a
\* POST of the signed form fields followed by the file when the init answer
\* says POST, and as a PUT of the file otherwise.  The finalize request
\* carries the upload_key and the finalize_token of the init answer.
C23_SignedUploadOrder ==
    LET d == documentsApi
        stores == CallsOf({StorePut, StorePost})
        finals == CallsOf({Finalize})
        inits == CallsOf({InitPost, InitGet})
        okAt(k) == Len(d.statuses) >= k /\ d.statuses[k] = 200
    IN  /\ Cardinality(stores) <= 1 /\ Cardinality(finals) <= 1
        /\ \A i, j \in CallsOf(SignedRequests) :
              i < j => StepOf(d.calls[i]) <= StepOf(d.calls[j])
        /\ \A k \in stores :
              /\ k - 1 \in inits /\ okAt(k - 1)
              /\ d.signed.upload_url.t = "string" /\ d.signed.upload_url.s # ""
              /\ d.sent[k].url = d.signed.upload_url.s
              /\ IF d.signed.method = Str("POST")
                 THEN /\ d.calls[k] = StorePost
                      /\ d.sent[k].method = "POST"
                      /\ d.sent[k].body = "formData"
                      /\ d.sent[k].fields =
                           (IF d.signed.fields = Undefined THEN ""
                            ELSE d.signed.fields.s)
                 ELSE /\ d.calls[k] = StorePut
                      /\ d.sent[k].method = "PUT"
                      /\ d.sent[k].body = "file"
        /\ \A k \in inits :
              (okAt(k) /\ d.signed.upload_url \in {Undefined, Str("")}) =>
                 /\ stores = {} /\ finals = {}
                 /\ d.signedResult = "Signed upload URL missing."
        /\ \A k \in finals :
              /\ k - 1 \in stores /\ okAt(k - 1)
              /\ d.sent[k].url = "/documents/complete-upload/"
              /\ d.sent[k].upload_key = d.signed.upload_key
              /\ d.sent[k].finalize_token = d.signed.finalize_token

\* The GET after a 405 says POST, with form fields, a key and a token: the
\* form went to the store and the finalize request carried key and token
C23_Witness ==
    /\ documentsApi.calls = <<InitPost, InitGet, StorePost, Finalize>>
    /\ documentsApi.statuses = <<405, 200, 200, 200>>
    /\ documentsApi.sent[3].fields = "policy"
    /\ documentsApi.sent[4].upload_key = Str("k1")
    /\ documentsApi.sent[4].finalize_token = Str("f1")
    /\ documentsApi.result = "resolved"

-----------------------------------------------------------------------------
(* The list operations of the resource modules: isPaginated and the filter *)

\* A response body as the list operations look at it: the value, and its
\* results property (undefined for a value that has none)
Data(v, results) == [t |-> v.t, s |-> v.s, n |-> v.n, results |-> results]

\* Bodies of a successful GET: nothing, text, a bare array, and objects with
\* results an array, something else or missing
ListBodies ==
    {Data(v, Undefined) : v \in {Undefined, Null, Str(""), Str("<html>"), Num(0),
                                 Arr(""), Arr("a,b"), Obj("count")}}
    \cup {Data(Obj("count,results"), r) :
             r \in {Null, Str("a,b"), Num(2), Obj("a"), Arr(""), Arr("a,b")}}

\* typeof and Array.isArray
TypeOf(x) == IF x.t \in {"null", "array", "object"} THEN "object" ELSE x.t
IsArray(x) == x.t = "array"

\* Mutant: any object with a results property counts as a page
isPaginated_AnyResults(data) ==
    Truthy(data) /\ TypeOf(data) = "object" /\ data.results # Undefined

\* data && typeof data === "object" && Array.isArray(data.results)
isPaginated(data) ==
    Truthy(data) /\ TypeOf(data) = "object" /\ IsArray(data.results)

\* if (isPaginated(data)) return data.results; return data
normalizeList(data) ==
    IF isPaginated(data) THEN Data(data.results, Undefined) ELSE data

\* The list operations, the URL of each and the name of its filter
ListOperations ==
    {"listClients", "listJobs", "listInvoices", "listInvoiceAddons",
     "listReceipts", "listJobMilestones", "listLedger", "listDocumentsByJob"}
OptionalFilter ==
    [listInvoiceAddons |-> "invoice", listJobMilestones |-> "job",
     listLedger |-> "job_id"]
ListUrl ==
    [listClients |-> "/clients/", listJobs |-> "/jobs/",
     listInvoices |-> "/invoices/", listInvoiceAddons |-> "/invoice-addons/",
     listReceipts |-> "/receipts/", listJobMilestones |-> "/job-milestones/",
     listLedger |-> "/ledger/", listDocumentsByJob |-> "/documents/by_job/"]

\* The argument of a list operation: none, an object without the filter, or
\* one with the filter empty or not
NoArgument == [given |-> FALSE, value |-> Undefined]
Argument(v) == [given |-> TRUE, value |-> v]
ListArguments(op) ==
    CASE op \in DOMAIN OptionalFilter ->
           {NoArgument} \cup {Argument(v) : v \in {Undefined, Str(""), Str("j1")}}
      [] op = "listDocumentsByJob" -> {Argument(Str("")), Argument(Str("j1"))}
      [] OTHER -> {NoArgument}

\* The params of the GET: undefined, or the one filter
NoParams == [name |-> "", value |-> Undefined]
ListParams(op, arg) ==
    CASE op \in DOMAIN OptionalFilter ->
           IF arg.given /\ Truthy(arg.value)
           THEN [name |-> OptionalFilter[op], value |-> arg.value]
           ELSE NoParams
      [] op = "listDocumentsByJob" -> [name |-> "job_id", value |-> arg.value]
      [] OTHER -> NoParams

NoList == Data(Undefined, Undefined)

\* A list operation about to be called, and the body the backend will send
InitLists ==
    /\ SessionInit({Str("http://h/api/")})
    /\ \E op \in ListOperations : \E arg \in ListArguments(op) :
       \E body \in ListBodies :
         listsApi = [op |-> op, arg |-> arg, body |-> body, status |-> "",
                     url |-> "", params |-> NoParams, result |-> NoList]
    /\ clientsPage = Unmounted
    /\ invoicesPage = Unmounted
    /\ trackerPage = Unmounted
    /\ documentsApi = Unmounted

OtherThanLists == <<sessionVars, clientsPage, invoicesPage, trackerPage, documentsApi>>

\* The operation is called: its GET is sent
ListCall ==
    /\ listsApi.status = ""
    /\ listsApi' = [listsApi EXCEPT
            !.status = "pending",
            !.url = ListUrl[listsApi.op],
            !.params = ListParams(listsApi.op, listsApi.arg)]
    /\ UNCHANGED OtherThanLists

\* The GET is answered with the body: the operation resolves
ListResolved ==
    /\ listsApi.status = "pending"
    /\ listsApi' = [listsApi EXCEPT !.status = "resolved",
                                    !.result = normalizeList(listsApi.body)]
    /\ UNCHANGED OtherThanLists

\* The GET fails: the operation rejects
ListRejected ==
    /\ listsApi.status = "pending"
    /\ listsApi' = [listsApi EXCEPT !.status = "rejected"]
    /\ UNCHANGED OtherThanLists

NextLists == ListCall \/ ListResolved \/ ListRejected
SpecLists == InitLists /\ [][NextLists]_vars

\* C22: a list operation that resolved returns the results of a body that
\* is an object with an array as results, and the body itself otherwise.
\* The GET of listJobMilestones, listInvoiceAddons and listLedger carries
\* the filter exactly when a non-empty value was given for it, under the
\* name of the filter and with that value.
C22_ListUnwrapping ==
    LET l == listsApi
        body == l.body
        page == body.t = "object" /\ body.results.t = "array"
    IN  /\ l.status = "resolved" =>
              IF page THEN /\ l.result.t = "array"
                           /\ l.result.s = body.results.s
                      ELSE l.result = body
        /\ (l.status # "" /\ l.op \in {"listJobMilestones", "listInvoiceAddons",
                                        "listLedger"}) =>
              IF l.arg.given /\ l.arg.value.t = "string" /\ l.arg.value.s # ""
              THEN /\ l.params.value = l.arg.value
                   /\ l.params.name =
                        (CASE l.op = "listJobMilestones" -> "job"
                           [] l.op = "listInvoiceAddons" -> "invoice"
                           [] OTHER -> "job_id")
              ELSE l.params = NoParams

\* listLedger with an empty job_id: no filter is sent; the body has null as
\* results and comes back as it is
C22_Witness ==
    /\ listsApi.op = "listLedger"
    /\ listsApi.arg = Argument(Str(""))
    /\ listsApi.status = "resolved"
    /\ listsApi.params = NoParams
    /\ listsApi.body = Data(Obj("count,results"), Null)
    /\ listsApi.result = listsApi.body

====
